---- MODULE Spec2Model ----
(***************************************************************************)
(* Model of procesamiento_emisiones_cdmx_doc.py: the pipeline run by       *)
(* main() -- cargar_todo, filtrar_columnas, a_formato_largo,               *)
(* limpiar_y_ordenar, the catalogue, resumen_estadistico, the export and   *)
(* the two plotting wrappers with the monthly aggregation queries.         *)
(*                                                                         *)
(* Data representation.  A text (column label, file name) is a sequence of *)
(* one-character strings, so that the regular expression and the prefix /  *)
(* suffix tests are computed.  A cell is a record [k, n, d, s]: k = "num"  *)
(* is the rational n/d (d = 1 for an integer), k = "na" an empty cell /    *)
(* NaN, k = "txt" a cell holding the text s, not a number.  A DataFrame is *)
(* [cols, rows]: the ordered column labels and the rows, each a function   *)
(* from the labels to cells.  Means are exact rationals (floating point    *)
(* rounding is not modelled).                                              *)
(***************************************************************************)
EXTENDS Integers, Sequences, FiniteSets, TLC

VARIABLES pc, dir, args, raw, filtrado, largo, validas, catalogo, desc,
          written, tab9, tab10, console, figures, err, log

vars == <<pc, dir, args, raw, filtrado, largo, validas, catalogo, desc,
          written, tab9, tab10, console, figures, err, log>>

\* ---------------------------------------------------------------- bounds
MaxRows == 2

\* ------------------------------------------------------------ generic
Range(s) == {s[i] : i \in 1..Len(s)}

RECURSIVE Gcd(_, _)
Gcd(a, b) == IF b = 0 THEN a ELSE Gcd(b, a % b)

Abs(a) == IF a < 0 THEN -a ELSE a

RECURSIVE FlatMap(_, _)
\* concatenation of F[s[1]], F[s[2]], ... (F a function giving sequences)
FlatMap(F, s) == IF s = <<>> THEN <<>> ELSE F[Head(s)] \o FlatMap(F, Tail(s))

\* ------------------------------------------------------------ texts
ESTACION == <<"E","S","T","A","C","I","O","N">>
MAGNITUD == <<"M","A","G","N","I","T","U","D">>
ANO == <<"A","N","O">>
MES == <<"M","E","S">>
ARCHIVO == <<"_","_","A","R","C","H","I","V","O","_","_">>

Digits == <<"0","1","2","3","4","5","6","7","8","9">>

\* int() of one decimal digit character
DigitVal(c) == (CHOOSE i \in 1..10 : Digits[i] = c) - 1

IsDigit(c) == c \in Range(Digits)

\* code-point order of the characters that occur in the file names
Alphabet == <<"-", ".", "0","1","2","3","4","5","6","7","8","9",
              "_", "a","b","c","d","e","i","m","n","o","s","t","v","x">>

Ord(c) == CHOOSE i \in 1..Len(Alphabet) : Alphabet[i] = c

RECURSIVE StrLess(_, _)
\* Python's < on str: lexicographic by code point, a proper prefix is smaller
StrLess(s, t) ==
    IF t = <<>> THEN FALSE
    ELSE IF s = <<>> THEN TRUE
    ELSE IF Head(s) # Head(t) THEN Ord(Head(s)) < Ord(Head(t))
    ELSE StrLess(Tail(s), Tail(t))

StartsWith(s, p) == Len(s) >= Len(p) /\ SubSeq(s, 1, Len(p)) = p

EndsWith(s, p) == Len(s) >= Len(p) /\ SubSeq(s, Len(s) - Len(p) + 1, Len(s)) = p

\* ------------------------------------------------------------ cells
NA == [k |-> "na", n |-> 0, d |-> 1, s |-> <<>>]
Txt(t) == [k |-> "txt", n |-> 0, d |-> 1, s |-> t]
Rat(a, b) == [k |-> "num", n |-> a \div Gcd(Abs(a), b), d |-> b \div Gcd(Abs(a), b), s |-> <<>>]
Num(a) == [k |-> "num", n |-> a, d |-> 1, s |-> <<>>]

IsNA(c) == c.k = "na"
IsNum(c) == c.k = "num"

\* numeric order of two "num" cells
NumLess(a, b) == a.n * b.d < b.n * a.d

NumAdd(a, b) == Rat(a.n * b.d + b.n * a.d, a.d * b.d)

\* variant: text that is not a number becomes 0 instead of NaN
to_numeric_cero(c) == IF IsNum(c) THEN c ELSE IF IsNA(c) THEN NA ELSE Num(0)

\* pd.to_numeric(x, errors="coerce"): text that is not a number becomes NaN
to_numeric(c) == IF IsNum(c) THEN c ELSE NA

\* Series.astype("Int64") on one float: TRUE when the cast is refused
\* ("cannot safely cast non-equivalent float64 to int64")
Int64CastFails(c) == IsNum(c) /\ c.d # 1

\* ------------------------------------------------------------ sorting
RECURSIVE InsertByRank(_, _, _)
\* x goes after every element whose rank is not greater than its own
InsertByRank(x, s, R) ==
    IF s = <<>> THEN <<x>>
    ELSE IF R[x] < R[Head(s)] THEN <<x>> \o s
    ELSE <<Head(s)>> \o InsertByRank(x, Tail(s), R)

RECURSIVE SortByRank(_, _)
\* stable ascending sort of s by the integer rank R[x]
SortByRank(s, R) ==
    IF s = <<>> THEN <<>>
    ELSE InsertByRank(s[Len(s)], SortByRank(SubSeq(s, 1, Len(s) - 1), R), R)

\* stable ascending sort under a strict weak order Less: the rank of x is
\* the number of distinct elements smaller than x
StableSort(s, Less(_, _)) ==
    SortByRank(s, [x \in Range(s) |-> Cardinality({y \in Range(s) : Less(y, x)})])

\* the elements of the finite set S in ascending order of Less (a strict
\* total order on S)
SetToSortedSeq(S, Less(_, _)) ==
    [i \in 1..Cardinality(S) |->
        CHOOSE x \in S : Cardinality({y \in S : Less(y, x)}) = i - 1]

\* ------------------------------------------------------------ results
\* a call either returns a value or raises an exception
Return(v) == [ok |-> TRUE, val |-> v, exc |-> [type |-> "none", cols |-> <<>>]]
Raise(t, c) == [ok |-> FALSE, val |-> <<>>, exc |-> [type |-> t, cols |-> c]]
NoErr == [type |-> "none", cols |-> <<>>]

\* a variable that main() has not assigned yet
NoTable == [cols |-> <<>>, rows |-> <<>>]

\* ------------------------------------------------------------ cargar_todo
Prefix == <<"e","m","i","s","i","o","n","e","s","-">>
Suffix == <<".","c","s","v">>

\* df[col] = value: replaces the column if it exists, else appends it
SetColumn(df, col, value) ==
    [cols |-> IF col \in Range(df.cols) THEN df.cols ELSE Append(df.cols, col),
     rows |-> [i \in 1..Len(df.rows) |->
                 [c \in Range(df.cols) \cup {col} |->
                     IF c = col THEN value ELSE df.rows[i][c]]]]

RECURSIVE UnionCols(_)
\* pd.concat (outer join, sort=False): labels in order of first appearance
UnionCols(dfs) ==
    IF dfs = <<>> THEN <<>>
    ELSE LET rest == UnionCols(SubSeq(dfs, 1, Len(dfs) - 1))
             last == dfs[Len(dfs)].cols
         IN  rest \o SelectSeq(last, LAMBDA c : c \notin Range(rest))

\* pd.concat(dfs, ignore_index=True): rows in order, absent cells are NaN
Concat(dfs) ==
    LET cols == UnionCols(dfs)
        Widen == [k \in 1..Len(dfs) |->
                    [i \in 1..Len(dfs[k].rows) |->
                        [c \in Range(cols) |->
                            IF c \in Range(dfs[k].cols) THEN dfs[k].rows[i][c] ELSE NA]]]
    IN  [cols |-> cols, rows |-> FlatMap(Widen, [k \in 1..Len(dfs) |-> k])]

\* sorted([f for f in os.listdir(data_dir) if f.startswith(..) and f.endswith(..)])
MatchingFiles(d) ==
    SetToSortedSeq({f \in DOMAIN d : StartsWith(f, Prefix) /\ EndsWith(f, Suffix)}, StrLess)

cargar_todo(d) ==
    LET files == MatchingFiles(d)
        dfs == [k \in 1..Len(files) |-> SetColumn(d[files[k]], ARCHIVO, Txt(files[k]))]
    IN  IF files = <<>> THEN Raise("RuntimeError", <<>>)
        ELSE Return(Concat(dfs))

\* ------------------------------------------------------------ filtrar_columnas
base_cols == <<ESTACION, MAGNITUD, ANO, MES>>

\* re.fullmatch(r"D\d{2}", c)
IsDayCol(c) == Len(c) = 3 /\ c[1] = "D" /\ IsDigit(c[2]) /\ IsDigit(c[3])

RECURSIVE IntOf(_)
\* int() of a string of decimal digits
IntOf(t) == IF t = <<>> THEN 0
            ELSE 10 * IntOf(SubSeq(t, 1, Len(t) - 1)) + DigitVal(t[Len(t)])

\* the key of the sort: int(x[1:])
DayKey(c) == IntOf(Tail(c))

\* variant: the day columns left in the order of the raw table
SortDayCols_sin_orden(day_cols) == day_cols

\* sorted(day_cols, key=lambda x: int(x[1:]))
SortDayCols(day_cols) == StableSort(day_cols, LAMBDA a, b : DayKey(a) < DayKey(b))

\* df[labels].copy()
Project(df, labels) ==
    [cols |-> labels,
     rows |-> [i \in 1..Len(df.rows) |-> [c \in Range(labels) |-> df.rows[i][c]]]]

\* variant: the error names only the first absent identifier column
filtrar_columnas_primera(emisiones_raw) ==
    LET day_cols == SortDayCols(SelectSeq(emisiones_raw.cols, IsDayCol))
        missing == SelectSeq(base_cols, LAMBDA c : c \notin Range(emisiones_raw.cols))
    IN  IF missing # <<>> THEN Raise("KeyError", <<Head(missing)>>)
        ELSE Return(Project(emisiones_raw, base_cols \o day_cols))

filtrar_columnas(emisiones_raw) ==
    LET day_cols == SortDayCols(SelectSeq(emisiones_raw.cols, IsDayCol))
        missing == SelectSeq(base_cols, LAMBDA c : c \notin Range(emisiones_raw.cols))
    IN  IF missing # <<>> THEN Raise("KeyError", missing)
        ELSE Return(Project(emisiones_raw, base_cols \o day_cols))

\* ------------------------------------------------------------ a_formato_largo
NaT == [k |-> "nat", y |-> 0, m |-> 0, d |-> 0]
Date(y, m, d) == [k |-> "date", y |-> y, m |-> m, d |-> d]

IsLeap(y) == y % 4 = 0 /\ (y % 100 # 0 \/ y % 400 = 0)

DaysInMonth(y, m) ==
    IF m = 2 THEN (IF IsLeap(y) THEN 29 ELSE 28)
    ELSE IF m \in {4, 6, 9, 11} THEN 30 ELSE 31

\* (y, m, d) is a date of the calendar
ValidYMD(y, m, d) == m \in 1..12 /\ d >= 1 /\ d <= DaysInMonth(y, m)

\* DataFrame.melt(id_vars=base_cols, value_vars=day_cols, var_name="DIA_STR",
\* value_name="VALOR"): one record per (day column, row), day columns outermost
melt(df, day_cols) ==
    LET Block == [c \in Range(day_cols) |->
                    [i \in 1..Len(df.rows) |->
                        [ESTACION |-> df.rows[i][ESTACION],
                         MAGNITUD |-> df.rows[i][MAGNITUD],
                         ANO |-> df.rows[i][ANO],
                         MES |-> df.rows[i][MES],
                         DIA_STR |-> c,
                         VALOR |-> df.rows[i][c]]]]
    IN  FlatMap(Block, day_cols)

\* pd.to_datetime(dict(year=, month=, day=), errors="coerce") on one record.
\* pandas assembles year*10000 + month*100 + day and parses the number with
\* the format %Y%m%d; what does not parse to a date of the calendar is NaT.
\* (Defined for the eight-digit numbers, years 1678..2261 of Timestamp.)
to_datetime(year, month, day) ==
    IF IsNA(year) \/ IsNA(month) THEN NaT
    ELSE LET v == year.n * 10000 + month.n * 100 + day
             y == v \div 10000
             m == (v \div 100) % 100
             d == v % 100
         IN  IF ValidYMD(y, m, d) THEN Date(y, m, d) ELSE NaT

a_formato_largo(emisiones_filtrado) ==
    LET day_cols == SelectSeq(emisiones_filtrado.cols, IsDayCol)
        long_df == melt(emisiones_filtrado, day_cols)
        \* long_df["DIA"] = long_df["DIA_STR"].str[1:].astype(int)
        dia == [i \in 1..Len(long_df) |-> IntOf(Tail(long_df[i].DIA_STR))]
        \* pd.to_numeric(long_df[col], errors="coerce") ... .astype("Int64")
        ano == [i \in 1..Len(long_df) |-> to_numeric(long_df[i].ANO)]
        mes == [i \in 1..Len(long_df) |-> to_numeric(long_df[i].MES)]
        refused == \E i \in 1..Len(long_df) : Int64CastFails(ano[i]) \/ Int64CastFails(mes[i])
    IN  IF refused THEN Raise("TypeError", <<>>)
        ELSE Return([i \in 1..Len(long_df) |->
                [ESTACION |-> long_df[i].ESTACION,
                 MAGNITUD |-> long_df[i].MAGNITUD,
                 ANO |-> ano[i],
                 MES |-> mes[i],
                 DIA_STR |-> long_df[i].DIA_STR,
                 VALOR |-> to_numeric(long_df[i].VALOR),
                 DIA |-> dia[i],
                 FECHA |-> to_datetime(ano[i], mes[i], dia[i])]])

\* ------------------------------------------------------------ limpiar_y_ordenar
\* order of one sort key (numbers or NaN): ascending, NaN last
CellLess(a, b) == IsNum(a) /\ (IsNA(b) \/ (IsNum(b) /\ NumLess(a, b)))

\* order of two datetimes
DateLess(a, b) ==
    \/ a.y < b.y
    \/ a.y = b.y /\ a.m < b.m
    \/ a.y = b.y /\ a.m = b.m /\ a.d < b.d

\* variant: by=["ESTACION", "FECHA"], the pollutant left out of the keys
SortKeyLess_sin_magnitud(r1, r2) ==
    \/ CellLess(r1.ESTACION, r2.ESTACION)
    \/ r1.ESTACION = r2.ESTACION /\ DateLess(r1.FECHA, r2.FECHA)

\* by=["ESTACION", "MAGNITUD", "FECHA"]
SortKeyLess(r1, r2) ==
    \/ CellLess(r1.ESTACION, r2.ESTACION)
    \/ r1.ESTACION = r2.ESTACION /\ CellLess(r1.MAGNITUD, r2.MAGNITUD)
    \/ r1.ESTACION = r2.ESTACION /\ r1.MAGNITUD = r2.MAGNITUD
         /\ DateLess(r1.FECHA, r2.FECHA)

\* variant: dropna() without subset, a record with any NaN is dropped
dropna_any(long_df) ==
    SelectSeq(long_df, LAMBDA r : r.FECHA # NaT /\ ~IsNA(r.ESTACION) /\ ~IsNA(r.MAGNITUD)
                                  /\ ~IsNA(r.VALOR))

\* long_df.dropna(subset=["FECHA"])
dropna_FECHA(long_df) == SelectSeq(long_df, LAMBDA r : r.FECHA # NaT)

\* df.sort_values(by=[...]): the multi-key sort of pandas is stable
sort_values(df) == StableSort(df, SortKeyLess)

limpiar_y_ordenar(long_df) == sort_values(dropna_FECHA(long_df))

\* ------------------------------------------------------------ aggregation
NumMul(a, b) == Rat(a.n * b.n, a.d * b.d)
NumSub(a, b) == Rat(a.n * b.d - b.n * a.d, a.d * b.d)

RECURSIVE NumSum(_)
NumSum(xs) == IF xs = <<>> THEN Num(0) ELSE NumAdd(Head(xs), NumSum(Tail(xs)))

\* the values of a group that the aggregations use: NaN is skipped
NonMissing(xs) == SelectSeq(xs, IsNum)

\* variant: size of the group, NaN included
agg_size(xs) == Len(xs)

agg_count(xs) == Len(NonMissing(xs))

\* variant: NaN counted as 0 in the mean
agg_mean_con_nan(xs) ==
    LET v == NonMissing(xs)
    IN  IF xs = <<>> THEN NA ELSE NumMul(NumSum(v), Rat(1, Len(xs)))

agg_mean(xs) ==
    LET v == NonMissing(xs)
    IN  IF v = <<>> THEN NA ELSE NumMul(NumSum(v), Rat(1, Len(v)))

\* sample standard deviation (ddof=1), kept as the square root of the
\* variance n/d: [k |-> "sqrt", n, d]; NaN with fewer than two values
agg_std(xs) ==
    LET v == NonMissing(xs)
        c == Len(v)
        sq == [i \in 1..c |-> NumMul(v[i], v[i])]
        num == NumSub(NumMul(Num(c), NumSum(sq)), NumMul(NumSum(v), NumSum(v)))
        var == NumMul(num, Rat(1, c * (c - 1)))
    IN  IF c < 2 THEN NA ELSE [var EXCEPT !.k = "sqrt"]

agg_min(xs) ==
    LET v == NonMissing(xs)
    IN  IF v = <<>> THEN NA
        ELSE CHOOSE x \in Range(v) : \A y \in Range(v) : ~NumLess(y, x)

agg_max(xs) ==
    LET v == NonMissing(xs)
    IN  IF v = <<>> THEN NA
        ELSE CHOOSE x \in Range(v) : \A y \in Range(v) : ~NumLess(x, y)

\* lexicographic order of group keys (tuples of numbers)
RECURSIVE KeyLess(_, _)
KeyLess(a, b) ==
    IF a = <<>> THEN FALSE
    ELSE IF Head(a) # Head(b) THEN NumLess(Head(a), Head(b))
    ELSE KeyLess(Tail(a), Tail(b))

\* df.groupby(by): the keys of the groups in ascending order; a record whose
\* key has a NaN belongs to no group (dropna=True), Key[i] is the key of df[i]
GroupKeys(df, Key) ==
    SetToSortedSeq({Key[i] : i \in {j \in 1..Len(df) : \A q \in 1..Len(Key[j]) : IsNum(Key[j][q])}},
                   KeyLess)

\* the VALOR column of the group of key
GroupValues(df, Key, key) ==
    LET idx == SelectSeq([i \in 1..Len(df) |-> i], LAMBDA i : Key[i] = key)
    IN  [q \in 1..Len(idx) |-> df[idx[q]].VALOR]

resumen_estadistico(df) ==
    LET Key == [i \in 1..Len(df) |-> <<df[i].ESTACION, df[i].MAGNITUD>>]
        keys == GroupKeys(df, Key)
    IN  [g \in 1..Len(keys) |->
            LET xs == GroupValues(df, Key, keys[g])
            IN  [ESTACION |-> keys[g][1],
                 MAGNITUD |-> keys[g][2],
                 count |-> agg_count(xs),
                 promedio |-> agg_mean(xs),
                 desv_std |-> agg_std(xs),
                 min |-> agg_min(xs),
                 max |-> agg_max(xs)]]

\* column == value for an integer argument
EqInt(c, v) == IsNum(c) /\ c.n = v * c.d

\* a matrix: row labels, column labels (both tuples of numbers, ascending)
\* and the cells of the (row, column) pairs
EmptyMatrix == [index |-> <<>>, columns |-> <<>>, cell |-> <<>>]

\* variant: a test that an empty table does not pass ("tab is None")
IsNone(tab) == FALSE

\* DataFrame.empty
IsEmpty(tab) == tab.index = <<>> \/ tab.columns = <<>>

medias_mensuales_por_contaminante_y_ano(df_long, contaminante, ano) ==
    LET tmp == SelectSeq(df_long, LAMBDA r : EqInt(r.MAGNITUD, contaminante) /\ EqInt(r.ANO, ano))
        Key == [i \in 1..Len(tmp) |-> <<tmp[i].ESTACION, tmp[i].MES>>]
        keys == GroupKeys(tmp, Key)
        \* .pivot(index="ESTACION", columns="MES", values="VALOR").sort_index()
        index == SetToSortedSeq({<<k[1]>> : k \in Range(keys)}, KeyLess)
        columns == SetToSortedSeq({<<k[2]>> : k \in Range(keys)}, KeyLess)
    IN  [index |-> index,
         columns |-> columns,
         cell |-> [rc \in Range(index) \X Range(columns) |->
                    IF rc[1] \o rc[2] \in Range(keys)
                    THEN agg_mean(GroupValues(tmp, Key, rc[1] \o rc[2]))
                    ELSE NA]]

\* an optional integer argument (None or a value)
None == [some |-> FALSE, v |-> 0]
Some(x) == [some |-> TRUE, v |-> x]

medidas_mensuales_por_estacion(df_long, estacion_codigo, ano) ==
    LET tmp == SelectSeq(df_long, LAMBDA r : EqInt(r.ESTACION, estacion_codigo)
                                             /\ (ano.some => EqInt(r.ANO, ano.v)))
        Key == [i \in 1..Len(tmp) |-> <<tmp[i].ANO, tmp[i].MES, tmp[i].MAGNITUD>>]
        \* .pivot_table(index=["ANO", "MES"], columns="MAGNITUD", values="VALOR")
        \* drops the groups whose mean is NaN before reshaping
        keys == SelectSeq(GroupKeys(tmp, Key),
                          LAMBDA k : IsNum(agg_mean(GroupValues(tmp, Key, k))))
        index == SetToSortedSeq({<<k[1], k[2]>> : k \in Range(keys)}, KeyLess)
        columns == SetToSortedSeq({<<k[3]>> : k \in Range(keys)}, KeyLess)
    IN  [index |-> index,
         columns |-> columns,
         cell |-> [rc \in Range(index) \X Range(columns) |->
                    IF rc[1] \o rc[2] \in Range(keys)
                    THEN agg_mean(GroupValues(tmp, Key, rc[1] \o rc[2]))
                    ELSE NA]]

\* int(v) of a non-negative number
IntTrunc(c) == c.n \div c.d

\* sorted(column.dropna().unique()), then int() of each (catalogue of main)
SortedUnique(cells) ==
    LET u == SetToSortedSeq({<<c>> : c \in {x \in Range(cells) : IsNum(x)}}, KeyLess)
    IN  [i \in 1..Len(u) |-> IntTrunc(u[i][1])]

\* sorted(set(int(a) for a in validas['ANO'].dropna().unique()))
SortedYears(cells) ==
    SetToSortedSeq({IntTrunc(c) : c \in {x \in Range(cells) : IsNum(x)}},
                   LAMBDA a, b : a < b)

\* args.example_x if args.example_x is not None else (xs[0] if xs else None)
Example(arg, xs) == IF arg.some THEN arg ELSE IF xs # <<>> THEN Some(xs[1]) ELSE None

e_year == Example(args.example_year, catalogo.anos)
e_cont == Example(args.example_cont, catalogo.magnitudes)
e_est == Example(args.example_est, catalogo.estaciones)

\* the files written by _exportar_archivos
ExportFiles ==
    {"emisiones_filtrado.csv", "emisiones_long_validas.csv",
     "resumen_estacion_contaminante.csv",
     IF args.excel = "" THEN "resumen_emisiones.xlsx" ELSE args.excel}

NoCatalogo == [estaciones |-> <<>>, magnitudes |-> <<>>, anos |-> <<>>]

\* ------------------------------------------------------------ main
\* variant: the exception is caught and main goes on to the export
Abort_y_sigue(exc) == /\ pc' = "exportar"
                      /\ err' = exc

\* an uncaught exception ends main: nothing after the raising call runs
Abort(exc) == /\ pc' = "aborted"
              /\ err' = exc

CargarTodo ==
    /\ pc = "cargar_todo"
    /\ LET r == cargar_todo(dir)
       IN  IF r.ok
           THEN /\ raw' = r.val
                /\ console' = console \o [k \in 1..Len(MatchingFiles(dir)) |-> "Leido"]
                                      \o <<"Concatenado">>
                /\ log' = Append(log, "cargar_todo")
                /\ pc' = "filtrar_columnas"
                /\ err' = err
           ELSE /\ Abort(r.exc)
                /\ UNCHANGED <<raw, console, log>>
    /\ UNCHANGED <<dir, args, filtrado, largo, validas, catalogo, desc, written,
                   tab9, tab10, figures>>

FiltrarColumnas ==
    /\ pc = "filtrar_columnas"
    /\ LET r == filtrar_columnas(raw)
       IN  IF r.ok
           THEN /\ filtrado' = r.val
                /\ console' = Append(console, "Paso 3")
                /\ log' = Append(log, "filtrar_columnas")
                /\ pc' = "a_formato_largo"
                /\ err' = err
           ELSE /\ Abort(r.exc)
                /\ UNCHANGED <<filtrado, console, log>>
    /\ UNCHANGED <<dir, args, raw, largo, validas, catalogo, desc, written,
                   tab9, tab10, figures>>

AFormatoLargo ==
    /\ pc = "a_formato_largo"
    /\ LET r == a_formato_largo(filtrado)
       IN  IF r.ok
           THEN /\ largo' = r.val
                /\ console' = Append(console, "Paso 4-5")
                /\ log' = Append(log, "a_formato_largo")
                /\ pc' = "limpiar_y_ordenar"
                /\ err' = err
           ELSE /\ Abort(r.exc)
                /\ UNCHANGED <<largo, console, log>>
    /\ UNCHANGED <<dir, args, raw, filtrado, validas, catalogo, desc, written,
                   tab9, tab10, figures>>

LimpiarYOrdenar ==
    /\ pc = "limpiar_y_ordenar"
    /\ validas' = limpiar_y_ordenar(largo)
    /\ console' = Append(console, "Paso 6")
    /\ log' = Append(log, "limpiar_y_ordenar")
    /\ pc' = "catalogos"
    /\ UNCHANGED <<dir, args, raw, filtrado, largo, catalogo, desc, written,
                   tab9, tab10, figures, err>>

Catalogos ==
    /\ pc = "catalogos"
    /\ catalogo' = [estaciones |-> SortedUnique([i \in 1..Len(validas) |-> validas[i].ESTACION]),
                    magnitudes |-> SortedUnique([i \in 1..Len(validas) |-> validas[i].MAGNITUD]),
                    anos |-> SortedYears([i \in 1..Len(validas) |-> validas[i].ANO])]
    /\ console' = Append(console, "Paso 7")
    /\ log' = Append(log, "catalogos")
    /\ pc' = "resumen_estadistico"
    /\ UNCHANGED <<dir, args, raw, filtrado, largo, validas, desc, written,
                   tab9, tab10, figures, err>>

ResumenEstadistico ==
    /\ pc = "resumen_estadistico"
    /\ desc' = resumen_estadistico(validas)
    /\ console' = Append(console, "Paso 8")
    /\ log' = Append(log, "resumen_estadistico")
    /\ pc' = "exportar"
    /\ UNCHANGED <<dir, args, raw, filtrado, largo, validas, catalogo, written,
                   tab9, tab10, figures, err>>

ExportarArchivos ==
    /\ pc = "exportar"
    /\ written' = ExportFiles
    /\ console' = Append(console, "Archivos exportados")
    /\ log' = Append(log, "exportar")
    /\ pc' = "graficar_contaminante"
    /\ UNCHANGED <<dir, args, raw, filtrado, largo, validas, catalogo, desc,
                   tab9, tab10, figures, err>>

\* graficar_medias_mensuales_contaminante, called when plots are on and a
\* year and a pollutant are known
GraficarContaminante ==
    /\ pc = "graficar_contaminante"
    /\ IF ~args.no_plots /\ e_year.some /\ e_cont.some
       THEN LET tab == medias_mensuales_por_contaminante_y_ano(validas, e_cont.v, e_year.v)
            IN  /\ tab9' = tab
                /\ log' = Append(log, "graficar_contaminante")
                /\ IF IsEmpty(tab)
                   THEN /\ console' = console \o <<"[Grafica] MAGNITUD", "Sin datos MAGNITUD">>
                        /\ figures' = figures
                   ELSE /\ console' = Append(console, "[Grafica] MAGNITUD")
                        /\ figures' = figures + 1
       ELSE UNCHANGED <<tab9, log, console, figures>>
    /\ pc' = "graficar_estacion"
    /\ UNCHANGED <<dir, args, raw, filtrado, largo, validas, catalogo, desc,
                   written, tab10, err>>

\* graficar_mensual_por_estacion, called when plots are on and a station is known
GraficarEstacion ==
    /\ pc = "graficar_estacion"
    /\ IF ~args.no_plots /\ e_est.some
       THEN LET tab == medidas_mensuales_por_estacion(validas, e_est.v, e_year)
            IN  /\ tab10' = tab
                /\ log' = Append(log, "graficar_estacion")
                /\ IF IsEmpty(tab)
                   THEN /\ console' = console \o <<"[Grafica] ESTACION", "Sin datos ESTACION">>
                        /\ figures' = figures
                   ELSE /\ console' = Append(console, "[Grafica] ESTACION")
                        /\ figures' = figures + 1
       ELSE UNCHANGED <<tab10, log, console, figures>>
    /\ pc' = "fin"
    /\ UNCHANGED <<dir, args, raw, filtrado, largo, validas, catalogo, desc,
                   written, tab9, err>>

Fin ==
    /\ pc = "fin"
    /\ console' = Append(console, "Proceso completo")
    /\ pc' = "done"
    /\ UNCHANGED <<dir, args, raw, filtrado, largo, validas, catalogo, desc,
                   written, tab9, tab10, figures, err, log>>

Next ==
    \/ CargarTodo
    \/ FiltrarColumnas
    \/ AFormatoLargo
    \/ LimpiarYOrdenar
    \/ Catalogos
    \/ ResumenEstadistico
    \/ ExportarArchivos
    \/ GraficarContaminante
    \/ GraficarEstacion
    \/ Fin

\* ------------------------------------------------------------ inputs
D(a, b) == <<"D", a, b>>
V01 == <<"V","0","1">>
D1 == <<"D","1">>
D001 == <<"D","0","0","1">>
D0x == <<"D","0","x">>
d01 == <<"d","0","1">>

\* the sequences without repetition of elements of S
InjSeqs(S) ==
    UNION {{q \in [1..k -> S] : \A i, j \in 1..k : q[i] = q[j] => i = j} :
           k \in 0..Cardinality(S)}

\* the sequences of at most k elements of S
SeqsUpTo(S, k) == UNION {[1..m -> S] : m \in 0..k}

Reverse(q) == [i \in 1..Len(q) |-> q[Len(q) + 1 - i]]

\* the cell of a generic row under the label c
DefaultCell(c) ==
    IF c \in {ESTACION, MAGNITUD, MES} THEN Num(1)
    ELSE IF c = ANO THEN Num(2020)
    ELSE IF IsDayCol(c) THEN Num(10 + DayKey(c))
    ELSE Txt(<<"x">>)

\* a file of one generic row under the header cols
OneRowFile(cols) == [cols |-> cols, rows |-> <<[c \in Range(cols) |-> DefaultCell(c)]>>]

\* a row of a file with the identifier columns and the day columns days,
\* whose cells are vals
RowOf(days, e, m, a, me, vals) ==
    [c \in {ESTACION, MAGNITUD, ANO, MES} \cup Range(days) |->
        IF c = ESTACION THEN e ELSE IF c = MAGNITUD THEN m
        ELSE IF c = ANO THEN a ELSE IF c = MES THEN me
        ELSE vals[CHOOSE i \in 1..Len(days) : days[i] = c]]

File9 == <<"e","m","i","s","i","o","n","e","s","-","9",".","c","s","v">>
File10 == <<"e","m","i","s","i","o","n","e","s","-","1","0",".","c","s","v">>
FileTxt == <<"e","m","i","s","i","o","n","e","s","-","9",".","t","x","t">>
FileNotas == <<"n","o","t","a","s",".","c","s","v">>

\* the content of each file of the directory family: the station is the
\* file's number, the second file has one more day column
FileContent(f) ==
    IF f = File10
    THEN [cols |-> <<ESTACION, MAGNITUD, ANO, MES, D("0","1"), D("0","2")>>,
          rows |-> <<RowOf(<<D("0","1"), D("0","2")>>, Num(10), Num(1), Num(2020), Num(1), <<Num(5), Num(6)>>)>>]
    ELSE [cols |-> <<MES, ANO, MAGNITUD, ESTACION, D("0","1")>>,
          rows |-> <<[c \in {ESTACION, MAGNITUD, ANO, MES, D("0","1")} |->
                        IF c = ESTACION THEN Num(9) ELSE DefaultCell(c)]>>]

\* directories: every set of the four file names
DirFamily == {[f \in S |-> FileContent(f)] : S \in SUBSET {File9, File10, FileTxt, FileNotas}}

\* one file whose header is a permutation of the identifiers and two day columns
PermFamily ==
    {[f \in {File9} |-> OneRowFile(h)] :
        h \in {q \in InjSeqs({ESTACION, MAGNITUD, ANO, MES, D("1","0"), D("0","2")}) : Len(q) = 6}}

\* one file whose header has some of the identifiers, some day columns in
\* some order and labels that are not day columns
HeaderFamily ==
    {[f \in {File9} |-> OneRowFile(h)] :
        h \in UNION {UNION {{SelectSeq(base_cols, LAMBDA c : c \in B) \o <<V01, D1>> \o days \o <<D001>>,
                             <<D0x, D001>> \o days \o <<d01>> \o Reverse(SelectSeq(base_cols, LAMBDA c : c \in B))} :
                            days \in InjSeqs({D("0","1"), D("0","2"), D("1","0"), D("3","2")})} :
                     B \in SUBSET Range(base_cols)}}

YearCells == {Num(2020), Num(2021), Num(1900), Txt(<<"x">>), NA, Rat(4033, 2)}
MonthCells == {Num(2), Num(4), Num(13), Txt(<<"x">>), NA, Rat(5, 2)}

\* one file of one row with the day columns D29, D30, D31
DateFamily ==
    {[f \in {File9} |->
        [cols |-> <<ESTACION, MAGNITUD, ANO, MES, D("2","9"), D("3","0"), D("3","1")>>,
         rows |-> <<[c \in {ESTACION, MAGNITUD, ANO, MES, D("2","9"), D("3","0"), D("3","1")} |->
                      IF c = ANO THEN a ELSE IF c = MES THEN me ELSE DefaultCell(c)]>>]] :
        a \in YearCells, me \in MonthCells}

\* rows of February with a first and a thirtieth day: the identifiers vary
SortRows ==
    {RowOf(<<D("0","1"), D("3","0")>>, e, m, a, Num(2), <<Num(10), Num(20)>>) :
        e \in {Num(1), Num(2), NA}, m \in {Num(1), Num(2), NA}, a \in {Num(2020), Num(2021)}}

SortFamily ==
    {[f \in {File9} |->
        [cols |-> <<ESTACION, MAGNITUD, ANO, MES, D("0","1"), D("3","0")>>, rows |-> rs]] :
        rs \in SeqsUpTo(SortRows, MaxRows)}

\* the cells of the three day columns of a row of the value family
ValueCells ==
    {<<Num(10), Num(20), Num(30)>>, <<Txt(<<"x">>), NA, NA>>,
     <<Num(30), Txt(<<"x">>), NA>>}

\* rows of 2020 with the first three days: station, month and values vary
ValueRows ==
    {RowOf(<<D("0","1"), D("0","2"), D("0","3")>>, e, Num(1), Num(2020), me, vs) :
        e \in {Num(1), Num(2)}, me \in {Num(1), Num(2)}, vs \in ValueCells}

ValueFamily ==
    {[f \in {File9} |->
        [cols |-> <<ESTACION, MAGNITUD, ANO, MES, D("0","1"), D("0","2"), D("0","3")>>,
         rows |-> rs]] :
        rs \in SeqsUpTo(ValueRows, MaxRows)}

DefaultArgs ==
    [no_plots |-> FALSE, excel |-> "", example_year |-> None,
     example_cont |-> None, example_est |-> None]

\* a command line with explicit selectors that the data may not contain
ExplicitArgs ==
    [DefaultArgs EXCEPT !.example_year = Some(2021), !.example_cont = Some(2),
                        !.example_est = Some(2)]

\* command lines: the defaults, explicit selectors, without plots, and a
\* station that no file has
ArgSet ==
    {DefaultArgs,
     ExplicitArgs,
     [DefaultArgs EXCEPT !.no_plots = TRUE, !.excel = "salida.xlsx"],
     [DefaultArgs EXCEPT !.example_est = Some(3)]}

Init ==
    /\ \/ dir \in DirFamily \cup PermFamily \cup HeaderFamily \cup DateFamily /\ args = DefaultArgs
       \/ dir \in SortFamily /\ args \in {DefaultArgs, ExplicitArgs}
       \/ dir \in ValueFamily /\ args \in ArgSet
    /\ pc = "cargar_todo"
    /\ raw = NoTable
    /\ filtrado = NoTable
    /\ largo = <<>>
    /\ validas = <<>>
    /\ catalogo = NoCatalogo
    /\ desc = <<>>
    /\ written = {}
    /\ tab9 = EmptyMatrix
    /\ tab10 = EmptyMatrix
    /\ console = <<>>
    /\ figures = 0
    /\ err = NoErr
    /\ log = <<>>

Spec == Init /\ [][Next]_vars

\* ============================================================ properties
\* main has gone through the call of a_formato_largo(filtrado)
ReshapeCalled == "filtrar_columnas" \in Range(log) /\ pc # "a_formato_largo"

\* the labels "D" + two decimal digits
DayLabels == {<<"D", a, b>> : a \in Range(Digits), b \in Range(Digits)}

\* number of positions of the sequence q that hold x
Count(q, x) == Cardinality({i \in 1..Len(q) : q[i] = x})

\* C1: once a_formato_largo has been called on the filtered table, the long
\* table has (number of rows) x (number of day columns) records, exactly one
\* for each pair of an input row and a day column, whatever the cell holds.
C1_LongCount ==
    ReshapeCalled =>
        LET days == {c \in Range(filtrado.cols) : c \in DayLabels}
        IN  /\ Len(largo) = Len(filtrado.rows) * Cardinality(days)
            /\ \A c \in days : \A r \in Range(filtrado.rows) :
                 Cardinality({i \in 1..Len(largo) :
                                /\ largo[i].DIA_STR = c
                                /\ largo[i].ESTACION = r[ESTACION]
                                /\ largo[i].MAGNITUD = r[MAGNITUD]})
                   = Cardinality({k \in 1..Len(filtrado.rows) :
                                /\ filtrado.rows[k][ESTACION] = r[ESTACION]
                                /\ filtrado.rows[k][MAGNITUD] = r[MAGNITUD]})

\* the count of C1 in the runs where a_formato_largo returned a table
LongCountWhenReturned == "a_formato_largo" \in Range(log) => C1_LongCount

\* C2: limpiar_y_ordenar returns exactly the records of the long table whose
\* FECHA is present: each of them as many times as the long table holds it,
\* no record without a date, so no more records than the long table has.
C2_KeepsDated ==
    "limpiar_y_ordenar" \in Range(log) =>
        /\ \A i \in 1..Len(validas) : validas[i].FECHA.k = "date"
        /\ \A r \in Range(largo) \cup Range(validas) :
             Count(validas, r) = IF r.FECHA.k = "date" THEN Count(largo, r) ELSE 0
        /\ Len(validas) <= Len(largo)

\* a run where cleaning dropped a record without a date and kept records
\* whose station, pollutant and value are missing
C2_Witness ==
    /\ "limpiar_y_ordenar" \in Range(log)
    /\ \E i \in 1..Len(largo) : largo[i].FECHA.k = "nat"
    /\ \E i \in 1..Len(validas) : validas[i].ESTACION.k = "na"
    /\ \E i \in 1..Len(validas) : validas[i].MAGNITUD.k = "na"

\* a <= b for two identifiers, a missing identifier after every number
IdLeq(a, b) == b.k = "na" \/ (a.k = "num" /\ b.k = "num" /\ a.n * b.d <= b.n * a.d)

\* a <= b for two dates: their day numbers in a calendar of 12 x 31 slots
DayNumber(f) == (f.y * 12 + (f.m - 1)) * 31 + (f.d - 1)

\* (station, pollutant, date) of r1 <= that of r2, lexicographically
TripleLeq(r1, r2) ==
    IF r1.ESTACION # r2.ESTACION THEN IdLeq(r1.ESTACION, r2.ESTACION)
    ELSE IF r1.MAGNITUD # r2.MAGNITUD THEN IdLeq(r1.MAGNITUD, r2.MAGNITUD)
    ELSE DayNumber(r1.FECHA) <= DayNumber(r2.FECHA)

\* C3: the table returned by limpiar_y_ordenar is in ascending lexicographic
\* order of (station, pollutant, date), a missing station or pollutant after
\* every number, and it is a permutation of the retained records.
C3_Sorted ==
    "limpiar_y_ordenar" \in Range(log) =>
        /\ \A i \in 1..(Len(validas) - 1) : TripleLeq(validas[i], validas[i + 1])
        /\ LET kept == SelectSeq(largo, LAMBDA r : r.FECHA.k = "date")
           IN  /\ Len(kept) = Len(validas)
               /\ \A r \in Range(kept) : Count(validas, r) = Count(kept, r)

\* a run where the retained records were out of order in the long table:
\* two neighbours of the same station with their pollutants descending
C3_Witness ==
    /\ "limpiar_y_ordenar" \in Range(log)
    /\ LET kept == SelectSeq(largo, LAMBDA r : r.FECHA.k = "date")
       IN  /\ kept # validas
           /\ \E i \in 1..(Len(kept) - 1) :
                /\ kept[i].ESTACION = kept[i + 1].ESTACION
                /\ kept[i].MAGNITUD # kept[i + 1].MAGNITUD
                /\ ~TripleLeq(kept[i], kept[i + 1])

\* the integer of a cell that holds one, for the calendar test
IsInt(c) == c.k = "num" /\ c.d = 1

\* C4: date synthesis never raises, whatever the year and month cells hold;
\* FECHA is the date (year, month, day) when the three are a date of the
\* calendar and is missing otherwise.
C4_DateSynthesis ==
    ReshapeCalled =>
        /\ err.type = "none"
        /\ \A i \in 1..Len(largo) :
             LET r == largo[i]
             IN  IF IsInt(r.ANO) /\ IsInt(r.MES) /\ ValidYMD(r.ANO.n, r.MES.n, r.DIA)
                 THEN r.FECHA = Date(r.ANO.n, r.MES.n, r.DIA)
                 ELSE r.FECHA = NaT

\* the dates of C4 in the runs where a_formato_largo returned a table
DatesWhenReturned ==
    "a_formato_largo" \in Range(log) =>
        \A i \in 1..Len(largo) :
             LET r == largo[i]
             IN  IF IsInt(r.ANO) /\ IsInt(r.MES) /\ ValidYMD(r.ANO.n, r.MES.n, r.DIA)
                 THEN r.FECHA = Date(r.ANO.n, r.MES.n, r.DIA)
                 ELSE r.FECHA = NaT

\* the number written by the two digits of a day label
Suffix2(c) == 10 * DigitVal(c[2]) + DigitVal(c[3])

\* the labels of the set S, by ascending two-digit number
AscendingDays(S) ==
    [i \in 1..Cardinality(S) |->
        CHOOSE c \in S : Cardinality({x \in S : Suffix2(x) < Suffix2(c)}) = i - 1]

\* main has gone through the call of filtrar_columnas(raw)
FilterCalled == "cargar_todo" \in Range(log) /\ pc # "filtrar_columnas"

\* the identifier columns that the raw table lacks
Absent == {c \in {ESTACION, MAGNITUD, ANO, MES} : c \notin Range(raw.cols)}

C6_MissingColumns ==
    FilterCalled =>
        IF Absent # {}
        THEN /\ pc = "aborted"
             /\ err.type = "KeyError"
             /\ Range(err.cols) = Absent
             /\ Len(err.cols) = Cardinality(Absent)
             /\ filtrado = NoTable
             /\ "filtrar_columnas" \notin Range(log)
        ELSE /\ err.type # "KeyError"
             /\ "filtrar_columnas" \in Range(log)

\* a run where filtrar_columnas failed for two absent identifier columns
C6_Witness ==
    /\ FilterCalled
    /\ Absent = {MAGNITUD, MES}
    /\ err.type = "KeyError"

\* the stages of main in the order of the program
Stages == <<"cargar_todo", "filtrar_columnas", "a_formato_largo", "limpiar_y_ordenar",
            "catalogos", "resumen_estadistico", "exportar">>

\* nothing of the stages after the first n has happened
NothingAfter(n) ==
    /\ n < 1 => raw = NoTable
    /\ n < 2 => filtrado = NoTable
    /\ n < 3 => largo = <<>>
    /\ n < 4 => validas = <<>>
    /\ n < 5 => catalogo = NoCatalogo
    /\ n < 6 => desc = <<>>
    /\ n < 7 => written = {}
    /\ figures = 0 /\ tab9 = EmptyMatrix /\ tab10 = EmptyMatrix

\* C7 (state part): after a fatal error the run has stopped at the stage that
\* raised it: no input file stops it before any stage, an absent identifier
\* column after ingestion only; no later stage has run and no file is
\* written.  Files are written only after ingestion, filter, reshape,
\* cleaning and summary have completed, in that order.
C7_State ==
    /\ err.type # "none" => pc = "aborted"
    /\ pc = "aborted" =>
         /\ err.type = "RuntimeError" => log = <<>> /\ NothingAfter(0)
         /\ err.type = "KeyError" => log = <<"cargar_todo">> /\ NothingAfter(1)
         /\ written = {}
         /\ \E n \in 0..Len(Stages) : log = SubSeq(Stages, 1, n) /\ NothingAfter(n)
    /\ written # {} => Len(log) >= 7 /\ SubSeq(log, 1, 7) = Stages

\* C7: the state part always holds, and an aborted run takes no further step
C7_FatalAborts == [](C7_State) /\ [][pc = "aborted" => UNCHANGED vars]_vars

\* a run aborted by filtrar_columnas, and nothing written
C7_Witness ==
    /\ pc = "aborted"
    /\ err.type = "KeyError"
    /\ log = <<"cargar_todo">>
    /\ written = {}

\* the positions of the table whose station and pollutant are e and m
PairRows(e, m) == {i \in 1..Len(validas) : validas[i].ESTACION = e /\ validas[i].MAGNITUD = m}

\* the positions among I whose value is a number
Valued(I) == {i \in I : validas[i].VALOR.k = "num"}

RECURSIVE SumAt(_)
\* the sum of the values at the positions I (all numbers)
SumAt(I) == IF I = {} THEN Num(0)
            ELSE LET i == CHOOSE x \in I : TRUE
                 IN  NumAdd(validas[i].VALOR, SumAt(I \ {i}))

\* the row x of a summary states the statistics of the values at positions I
StatsOf(x, I) ==
    LET V == Valued(I)
    IN  /\ x.count = Cardinality(V)
        /\ IF V = {}
           THEN x.promedio.k = "na" /\ x.desv_std.k = "na" /\ x.min.k = "na" /\ x.max.k = "na"
           ELSE /\ x.promedio.k = "num"
                /\ NumMul(x.promedio, Num(Cardinality(V))) = SumAt(V)
                /\ \E i \in V : validas[i].VALOR = x.min
                /\ \E i \in V : validas[i].VALOR = x.max
                /\ \A i \in V : ~NumLess(validas[i].VALOR, x.min)
                                /\ ~NumLess(x.max, validas[i].VALOR)

\* C8 as stated: the summary has exactly one row for each (station,
\* pollutant) pair that occurs in the table, with the statistics of the
\* non-missing values of the pair; with no such value count = 0 and the
\* other statistics are missing.
C8_OneRowPerPair ==
    "resumen_estadistico" \in Range(log) =>
        LET pairs == {<<validas[i].ESTACION, validas[i].MAGNITUD>> : i \in 1..Len(validas)}
        IN  /\ Len(desc) = Cardinality(pairs)
            /\ \A p \in pairs :
                 \E g \in 1..Len(desc) :
                    /\ desc[g].ESTACION = p[1] /\ desc[g].MAGNITUD = p[2]
                    /\ StatsOf(desc[g], PairRows(p[1], p[2]))

\* C8 amended: one row for each pair that occurs in the table with both its
\* station and its pollutant present; a record whose station or pollutant is
\* missing is in no row.
C8_OneRowPerPresentPair ==
    "resumen_estadistico" \in Range(log) =>
        LET pairs == {p \in {<<validas[i].ESTACION, validas[i].MAGNITUD>> : i \in 1..Len(validas)} :
                        p[1].k = "num" /\ p[2].k = "num"}
        IN  /\ Len(desc) = Cardinality(pairs)
            /\ \A p \in pairs :
                 \E g \in 1..Len(desc) :
                    /\ desc[g].ESTACION = p[1] /\ desc[g].MAGNITUD = p[2]
                    /\ StatsOf(desc[g], PairRows(p[1], p[2]))

\* a run whose summary has the row count = 3, mean = 20, min = 10, max = 30
\* and a row of a pair without any value, and a record with a missing value
C8_Witness ==
    /\ "resumen_estadistico" \in Range(log)
    /\ \E g \in 1..Len(desc) :
         /\ desc[g].count = 3 /\ desc[g].promedio = Num(20)
         /\ desc[g].min = Num(10) /\ desc[g].max = Num(30)
    /\ \E g \in 1..Len(desc) : desc[g].count = 0 /\ desc[g].promedio.k = "na"

\* the positions of the table that the query of (pollutant, year) selects
Selected9 == {i \in 1..Len(validas) :
                validas[i].MAGNITUD = Num(e_cont.v) /\ validas[i].ANO = Num(e_year.v)}

\* C9: each cell (station, month) of the matrix of (pollutant, year) is the
\* mean of the non-missing values of the records of that station, pollutant,
\* year and month; it is missing, never 0, when no record matches; the rows
\* are stations in ascending order and every column is a month of a selected
\* record.
C9_MonthlyMeans ==
    "graficar_contaminante" \in Range(log) =>
        /\ \A r \in Range(tab9.index) : \A c \in Range(tab9.columns) :
             LET I == {i \in Selected9 : validas[i].ESTACION = r[1] /\ validas[i].MES = c[1]}
                 V == Valued(I)
                 x == tab9.cell[<<r, c>>]
             IN  IF V = {} THEN x.k = "na"
                 ELSE x.k = "num" /\ NumMul(x, Num(Cardinality(V))) = SumAt(V)
        /\ \A i, j \in 1..Len(tab9.index) :
             i < j => /\ tab9.index[i][1].k = "num" /\ tab9.index[j][1].k = "num"
                      /\ tab9.index[i][1].n * tab9.index[j][1].d
                           < tab9.index[j][1].n * tab9.index[i][1].d
        /\ \A r \in Range(tab9.index) : \E i \in Selected9 : validas[i].ESTACION = r[1]
        /\ \A c \in Range(tab9.columns) : \E i \in Selected9 : validas[i].MES = c[1]

\* a run whose matrix has two stations and two months, a cell without any
\* matching record and a cell that is the mean of a group with a missing value
C9_Witness ==
    /\ "graficar_contaminante" \in Range(log)
    /\ Len(tab9.index) = 2 /\ Len(tab9.columns) = 2
    /\ \E r \in Range(tab9.index) : \E c \in Range(tab9.columns) :
         /\ {i \in Selected9 : validas[i].ESTACION = r[1] /\ validas[i].MES = c[1]} = {}
         /\ tab9.cell[<<r, c>>].k = "na"
    /\ \E r \in Range(tab9.index) : \E c \in Range(tab9.columns) :
         LET I == {i \in Selected9 : validas[i].ESTACION = r[1] /\ validas[i].MES = c[1]}
         IN  Valued(I) # {} /\ Valued(I) # I /\ tab9.cell[<<r, c>>].k = "num"

\* no record of the table matches the filters of the query of the pollutant
NoMatch9 == Selected9 = {}

\* no record of the table matches the filters of the query of the station
NoMatch10 ==
    {i \in 1..Len(validas) :
        /\ validas[i].ESTACION = Num(e_est.v)
        /\ e_year.some => validas[i].ANO = Num(e_year.v)} = {}

\* C10: a call of a plotting wrapper whose query matches no record does not
\* raise; the query returns the empty matrix, and the wrapper reports "no
\* data" and draws nothing.
C10_EmptyQuery ==
    [][/\ (pc = "graficar_contaminante" /\ log' # log /\ NoMatch9) =>
            /\ tab9'.index = <<>> /\ tab9'.columns = <<>>
            /\ console'[Len(console')] = "Sin datos MAGNITUD"
            /\ figures' = figures
            /\ pc' = "graficar_estacion" /\ err' = NoErr
       /\ (pc = "graficar_estacion" /\ log' # log /\ NoMatch10) =>
            /\ tab10'.index = <<>> /\ tab10'.columns = <<>>
            /\ console'[Len(console')] = "Sin datos ESTACION"
            /\ figures' = figures
            /\ pc' = "fin" /\ err' = NoErr]_vars

\* a run over a table with records where both queries matched nothing: both
\* wrappers reported "no data" and nothing was drawn
C10_Witness ==
    /\ pc = "done"
    /\ validas # <<>>
    /\ "graficar_contaminante" \in Range(log) /\ "graficar_estacion" \in Range(log)
    /\ NoMatch9 /\ NoMatch10
    /\ "Sin datos MAGNITUD" \in Range(console) /\ "Sin datos ESTACION" \in Range(console)
    /\ figures = 0

\* the long record built from row j and the k-th day column of the filtered
\* table (melt puts the day columns outermost)
LongOf(k, j) == largo[(k - 1) * Len(filtrado.rows) + j]

\* the day columns of the filtered table, in its order
FilteredDays == SelectSeq(filtrado.cols, LAMBDA c : c \in DayLabels)

\* C11: in every long record VALOR is the number of the source cell, and is
\* missing when the cell is empty or is not a number; the cell never makes
\* a_formato_largo raise and never changes FECHA, so a record of a text cell
\* with a valid year, month and day has a date, is kept by the cleaning and
\* is not counted in the summary of its station and pollutant.
C11_ValueCoercion ==
    /\ (ReshapeCalled /\ err.type = "TypeError") =>
          \E j \in 1..Len(filtrado.rows) :
             \/ filtrado.rows[j][ANO].k = "num" /\ filtrado.rows[j][ANO].d # 1
             \/ filtrado.rows[j][MES].k = "num" /\ filtrado.rows[j][MES].d # 1
    /\ "a_formato_largo" \in Range(log) =>
          \A k \in 1..Len(FilteredDays) : \A j \in 1..Len(filtrado.rows) :
             LET cell == filtrado.rows[j][FilteredDays[k]]
                 r == LongOf(k, j)
             IN  /\ r.DIA_STR = FilteredDays[k]
                 /\ r.VALOR = IF cell.k = "num" THEN cell ELSE NA
                 /\ (IsInt(filtrado.rows[j][ANO]) /\ IsInt(filtrado.rows[j][MES])
                       /\ ValidYMD(filtrado.rows[j][ANO].n, filtrado.rows[j][MES].n, r.DIA))
                      => r.FECHA = Date(filtrado.rows[j][ANO].n, filtrado.rows[j][MES].n, r.DIA)
                 /\ ("limpiar_y_ordenar" \in Range(log) /\ r.FECHA.k = "date")
                      => r \in Range(validas)
    /\ "resumen_estadistico" \in Range(log) =>
          \A g \in 1..Len(desc) :
             desc[g].count = Cardinality({i \in PairRows(desc[g].ESTACION, desc[g].MAGNITUD) :
                                            validas[i].VALOR.k = "num"})

\* a run where a text cell gave a record with a date and no value, kept by
\* the cleaning, whose pair has a summary row that counts fewer values than
\* the pair has records
C11_Witness ==
    /\ "resumen_estadistico" \in Range(log)
    /\ \E k \in 1..Len(FilteredDays) : \E j \in 1..Len(filtrado.rows) :
         /\ filtrado.rows[j][FilteredDays[k]].k = "txt"
         /\ LongOf(k, j).VALOR.k = "na"
         /\ LongOf(k, j).FECHA.k = "date"
         /\ LongOf(k, j) \in Range(validas)
         /\ \E g \in 1..Len(desc) :
              /\ desc[g].ESTACION = LongOf(k, j).ESTACION
              /\ desc[g].MAGNITUD = LongOf(k, j).MAGNITUD
              /\ desc[g].count > 0
              /\ desc[g].count
                   < Cardinality(PairRows(desc[g].ESTACION, desc[g].MAGNITUD))

\* C12: every long record built from a day column that the pattern accepts
\* has DIA equal to the number of the two digits of its DIA_STR, and that DIA
\* is in 1..31.
C12_DayIndex ==
    "a_formato_largo" \in Range(log) =>
        \A i \in 1..Len(largo) :
           /\ largo[i].DIA_STR \in DayLabels
           /\ largo[i].DIA = Suffix2(largo[i].DIA_STR)
           /\ largo[i].DIA \in 1..31

\* the first half of C12 alone: DIA is the number of the two digits
DayIndexIsSuffix ==
    "a_formato_largo" \in Range(log) =>
        \A i \in 1..Len(largo) :
           /\ largo[i].DIA_STR \in DayLabels
           /\ largo[i].DIA = Suffix2(largo[i].DIA_STR)

====
